---- MODULE Spec2Model ----
(***************************************************************************)
(* Family service and auth service of the family expense tracker, over a  *)
(* document store shared by several browser sessions.  A call of a        *)
(* service function is a sequence of steps; every await of a store read    *)
(* or write is a point where the calls of other sessions interleave.  A    *)
(* step is the answer of one store operation together with the             *)
(* synchronous code that runs up to the next await.                        *)
(***************************************************************************)
EXTENDS Integers, Sequences, FiniteSets, TLC

\* ------------------------------------------------------------------ bounds
MaxCalls == 4        \* calls of service functions started in one behaviour
MaxFamilies == 1     \* family ids handed out by generateId
MaxInvites == 1      \* invite ids handed out by generateId
MaxTime == 8         \* the clock stops here (days)
MaxAuthEvents == 4   \* sign-ins, sign-ups and sign-outs in one behaviour

\* --------------------------------------------------------------- constants
InviteDays == 7      \* expiresAt.setDate(expiresAt.getDate() + 7)

UserIds == {"u1", "u2", "u3"}
NoUser == "nobody"               \* auth.currentUser === null
Procs == {"p1", "p2"}            \* calls in flight at the same time
FamilyIds == 1..MaxFamilies
InviteIds == 1..MaxInvites
NoId == 0

\* error messages, as thrown
ErrNone == "ok"
ErrCreateLogin == "You must be logged in to create a family"
ErrCreateFamily == "Failed to create family"
ErrLogin == "You must be logged in"
ErrFamilyNotFound == "Family not found"
ErrFetchFamily == "Failed to fetch family"
ErrNotMember == "You are not a member of this family"
ErrCreateInvite == "Failed to create invite"
ErrAcceptLogin == "You must be logged in to accept an invite"
ErrFetchInvite == "Failed to fetch invite"
ErrInviteNotFound == "Invite not found"
ErrInviteUsed == "This invite has already been used or expired"
ErrInviteExpired == "This invite has expired"
ErrAlreadyMember == "You are already a member of this family"
ErrJoin == "Failed to join family"
ErrOnlyAdmin == "Only the family admin can remove members"
ErrRemoveAdmin == "Cannot remove the family admin"
ErrRemove == "Failed to remove member"
ErrAdminLeave == "Family admin cannot leave. Transfer ownership or delete the family."
ErrLeave == "Failed to leave family"

VARIABLES
    families,    \* the families collection: family id -> document
    invites,     \* the invites collection: invite id -> document
    users,       \* the users collection: uid -> profile document
    now,         \* the clock, in days
    nextFamily,  \* family ids generateId has handed out so far, plus one
    nextInvite,  \* invite ids generateId has handed out so far, plus one
    call,        \* per session slot: the call in flight
    calls,       \* calls started so far
    ret,         \* what the step just taken returned or threw to its caller
    acceptedBy,  \* per invite: the users acceptFamilyInvite has returned to
    env,         \* import.meta.env: the settings the build was given
    isInitialized, \* firebase.ts: Firebase is initialized
    firebaseApp, \* firebase.ts: the app instance exists (is not null)
    firebaseAuth, \* firebase.ts: the Auth instance exists
    firebaseFirestore, \* firebase.ts: the Firestore instance exists
    firebaseStorage, \* firebase.ts: the Storage instance exists
    out,         \* what the function just applied returned or threw
    isLoading,   \* AppShell: no auth state has been delivered yet
    currentUser, \* AppShell: the user the auth listener delivered last
    currentRoute, \* AppShell: the route
    selectedFamilyId, \* AppShell: the family selected
    unsubscribeAuth, \* AppShell: the auth listener is registered
    authReady,   \* Firebase Auth has reported its initial state to the listener
    authCurrentUser, \* Firebase Auth: auth.currentUser
    accounts,    \* Firebase Auth: the users that have an account
    lookups,     \* per user: getUserById calls of the auth listener in flight
    signUpCall,  \* the signUp call of the signup page
    authEvents   \* sign-ins, sign-ups and sign-outs so far

vars == <<families, invites, users, now, nextFamily, nextInvite, call, calls,
          ret, acceptedBy, env, isInitialized, firebaseApp, firebaseAuth,
          firebaseFirestore, firebaseStorage, out, isLoading, currentUser,
          currentRoute, selectedFamilyId, unsubscribeAuth, authReady,
          authCurrentUser, accounts, lookups, signUpCall, authEvents>>

\* the state of the family and auth services
serviceVars == <<families, invites, users, now, nextFamily, nextInvite, call,
                 calls, ret, acceptedBy>>

\* the state of the environment and Firebase modules
envVars == <<env, isInitialized, firebaseApp, firebaseAuth, firebaseFirestore,
            firebaseStorage, out>>

\* the state of the app shell and of Firebase Auth
shellVars == <<isLoading, currentUser, currentRoute, selectedFamilyId,
               unsubscribeAuth, authReady, authCurrentUser, accounts, lookups,
               signUpCall, authEvents>>

\* the settings and the module state of firebase.ts
firebaseVars == <<env, isInitialized, firebaseApp, firebaseAuth,
                 firebaseFirestore, firebaseStorage>>

\* ------------------------------------------------------------- environment
\* import.meta.env.X of a variable the build was not given (undefined)
Undefined == "(undefined)"

\* !s of a setting: undefined and the empty string are falsy
Falsy(s) == s = Undefined \/ s = ""

\* s || ''
OrEmpty(s) == IF Falsy(s) THEN "" ELSE s

\* (mutant: every unknown value taken for a preview deployment)
GetAppEnvironmentDefaultPreview(e) ==
    IF e.appEnv = "production" THEN "production"
    ELSE IF e.appEnv = "local" THEN "local"
    ELSE "preview"

GetAppEnvironment(e) ==
    IF e.appEnv = "production" THEN "production"
    ELSE IF e.appEnv = "preview" THEN "preview"
    ELSE "local"

IsLocalEnvironment(e) == GetAppEnvironment(e) = "local"

IsPreviewEnvironment(e) == GetAppEnvironment(e) = "preview"

IsProductionEnvironment(e) == GetAppEnvironment(e) = "production"

UseEmulators(e) == e.useEmulators = "true"

GetFirestoreRootPath(e) == OrEmpty(e.rootPath)

\* (mutant: the root path left out)
GetCollectionPathNoRoot(e, collectionName) == collectionName

GetCollectionPath(e, collectionName) ==
    LET rootPath == GetFirestoreRootPath(e) IN
    IF Falsy(rootPath) THEN collectionName
    ELSE rootPath \o "/" \o collectionName

\* (mutant: the separator left out)
GetDocumentPathNoSlash(e, collectionName, documentId) ==
    GetCollectionPath(e, collectionName) \o documentId

GetDocumentPath(e, collectionName, documentId) ==
    GetCollectionPath(e, collectionName) \o "/" \o documentId

\* the fields of getEnvironmentConfig() that the checks read
GetEnvironmentConfig(e) ==
    [appEnv |-> GetAppEnvironment(e),
     useEmulators |-> UseEmulators(e),
     firestoreRootPath |-> GetFirestoreRootPath(e),
     apiKey |-> OrEmpty(e.apiKey),
     projectId |-> OrEmpty(e.projectId)]

ErrApiKey == "VITE_FIREBASE_API_KEY is required"
ErrProjectId == "VITE_FIREBASE_PROJECT_ID is required"
ErrConfigHead == "Environment configuration errors:\n"

\* (mutant: the checks stop at the first missing setting)
ValidationErrorsFirstOnly(e) ==
    LET config == GetEnvironmentConfig(e) IN
    IF Falsy(config.apiKey) /\ ~config.useEmulators THEN <<ErrApiKey>>
    ELSE IF Falsy(config.projectId) THEN <<ErrProjectId>>
    ELSE <<>>

\* validateEnvironmentConfig: the errors array after all the checks
ValidationErrors(e) ==
    LET config == GetEnvironmentConfig(e) IN
    (IF Falsy(config.apiKey) /\ ~config.useEmulators THEN <<ErrApiKey>> ELSE <<>>)
    \o (IF Falsy(config.projectId) THEN <<ErrProjectId>> ELSE <<>>)

\* validateEnvironmentConfig: the console.warn about the root path
ValidationWarns(e) ==
    LET config == GetEnvironmentConfig(e) IN
    config.appEnv # "local" /\ Falsy(config.firestoreRootPath)

RECURSIVE JoinLines(_)
\* errors.map(e => `  - ${e}`).join('\n')
JoinLines(errors) ==
    IF errors = <<>> THEN ""
    ELSE IF Len(errors) = 1 THEN "  - " \o errors[1]
    ELSE "  - " \o errors[1] \o "\n" \o JoinLines(Tail(errors))

\* the message of the Error validateEnvironmentConfig throws
ValidationMessage(errors) == ErrConfigHead \o JoinLines(errors)

\* the environment of the test setup: local, no root path, credentials given
TestEnv ==
    [appEnv |-> "local", rootPath |-> "", apiKey |-> "test-api-key",
     projectId |-> "test-project", useEmulators |-> "false"]

\* no function applied yet
NoOut == [fn |-> "none", arg |-> <<>>, val |-> "", threw |-> FALSE, warned |-> FALSE]

\* fn(arg) returned val
Returns(fn, arg, val) == [NoOut EXCEPT !.fn = fn, !.arg = arg, !.val = val]

\* fn(arg) threw an Error with this message
Throws(fn, arg, msg) == [NoOut EXCEPT !.fn = fn, !.arg = arg, !.val = msg, !.threw = TRUE]

\* ------------------------------------------------------------ array helpers
Includes(s, x) == \E k \in 1..Len(s) : s[k] = x

Elems(s) == {s[k] : k \in 1..Len(s)}

NoDup(s) == \A j, k \in 1..Len(s) : s[j] = s[k] => j = k

\* (mutant: a plain push instead of arrayUnion)
ArrayUnionAppend(s, x) == Append(s, x)

\* (mutant: the array is replaced by the new element)
ArrayUnionReplace(s, x) == <<x>>

\* Firestore arrayUnion: adds the element only if the array lacks it

ArrayUnion(s, x) == IF Includes(s, x) THEN s ELSE Append(s, x)

\* family.members.filter(m => m !== memberId)
FilterOut(s, x) == SelectSeq(s, LAMBDA m : m # x)

\* ------------------------------------------------------------- documents
NoFamily == [exists |-> FALSE, createdBy |-> NoUser, members |-> <<>>]

NoInvite == [exists |-> FALSE, familyId |-> NoId, invitedBy |-> NoUser,
             expiresAt |-> 0, status |-> "none"]

\* the profile document signUp writes
NewUserDoc == [exists |-> TRUE, families |-> <<>>]

\* the family document createFamily writes
NewFamilyDoc(u) == [exists |-> TRUE, createdBy |-> u, members |-> <<u>>]

\* expiresAt = new Date(); expiresAt.setDate(expiresAt.getDate() + 7)
ExpiresAt(t) == t + InviteDays

\* the invite document createFamilyInvite writes
NewInviteDoc(f, u, e) == [exists |-> TRUE, familyId |-> f, invitedBy |-> u,
                          expiresAt |-> e, status |-> "pending"]

\* (mutant: the expiry check left out)
IsExpiredNever(t, e) == FALSE

\* new Date() > invite.expiresAt

IsExpired(t, e) == t > e

\* ------------------------------------------------------------------ calls
Idle == [op |-> "none", pc |-> "idle", auth |-> NoUser, fam |-> NoId,
         inv |-> NoId, member |-> NoUser, list |-> <<>>, t0 |-> 0,
         expiresAt |-> 0, err |-> ErrNone]

Free(p) == call[p].pc = "idle"

\* no call ended in the step just taken
NoRet == Idle

\* a call starts in the first free slot
CanStart(p) ==
    /\ Free(p)
    /\ calls < MaxCalls
    /\ p = "p1" \/ ~Free("p1")

Begin(op, u) == [Idle EXCEPT !.op = op, !.auth = u]

Fail(c, e) == [c EXCEPT !.pc = "failed", !.err = e, !.list = <<>>]

Done(c) == [c EXCEPT !.pc = "done", !.list = <<>>]

\* the step of the call in slot p leaves it as c: in flight, returned
\* ("done") or thrown ("failed"); a call that ended frees its slot
Set(p, c) ==
    /\ call' = [call EXCEPT ![p] = IF c.pc \in {"done", "failed"} THEN Idle ELSE c]
    /\ ret' = IF c.pc \in {"done", "failed"} THEN c ELSE NoRet
    /\ acceptedBy' = IF c.op = "acceptFamilyInvite" /\ c.pc = "done"
                     THEN [acceptedBy EXCEPT ![c.inv] = @ \cup {c.auth}]
                     ELSE acceptedBy
    /\ UNCHANGED envVars
    /\ UNCHANGED shellVars

\* a user as the app holds it (convertFirestoreUser), and no user (null)
NullUser == [id |-> NoUser, families |-> <<>>]

\* the app shell as constructed, nobody signed in
InitAppShell ==
    /\ isLoading = TRUE
    /\ currentUser = NullUser
    /\ currentRoute = "login"
    /\ selectedFamilyId = NoId
    /\ unsubscribeAuth = FALSE
    /\ authReady = FALSE
    /\ lookups = [u \in UserIds |-> 0]
    /\ signUpCall = [pc |-> "idle", uid |-> NoUser]
    /\ authEvents = 0

\* the store and the sessions before any call
InitService ==
    /\ families = [f \in FamilyIds |-> NoFamily]
    /\ invites = [i \in InviteIds |-> NoInvite]
    /\ users = [u \in UserIds |-> NewUserDoc]
    /\ now = 0
    /\ nextFamily = 1
    /\ nextInvite = 1
    /\ call = [p \in Procs |-> Idle]
    /\ calls = 0
    /\ ret = NoRet
    /\ acceptedBy = [i \in InviteIds |-> {}]

\* the app started under the test setup's environment, Firebase initialized
Init ==
    /\ InitService
    /\ env = TestEnv
    /\ isInitialized = TRUE
    /\ firebaseApp = TRUE
    /\ firebaseAuth = TRUE
    /\ firebaseFirestore = TRUE
    /\ firebaseStorage = TRUE
    /\ out = NoOut
    /\ InitAppShell
    /\ authCurrentUser = NoUser
    /\ accounts = UserIds

\* ------------------------------------------------------------ createFamily
\* createFamily up to the end of its first await: the login check,
\* generateId, and setDoc of the family document (which may fail)
CreateFamily(p, u) ==
    /\ CanStart(p)
    /\ calls' = calls + 1
    /\ UNCHANGED <<invites, users, now, nextInvite>>
    /\ IF u = NoUser
       THEN /\ Set(p, Fail(Begin("createFamily", u), ErrCreateLogin))
            /\ UNCHANGED <<families, nextFamily>>
       ELSE /\ nextFamily \in DOMAIN families
            /\ nextFamily' = nextFamily + 1
            /\ \/ /\ families' = [families EXCEPT ![nextFamily] = NewFamilyDoc(u)]
                  /\ Set(p, [Begin("createFamily", u) EXCEPT
                                !.fam = nextFamily, !.pc = "readUser"])
               \/ /\ UNCHANGED families
                  /\ Set(p, Fail([Begin("createFamily", u) EXCEPT !.fam = nextFamily],
                                 ErrCreateFamily))

\* ---------------------------------------------------------- addFamilyToUser
\* what the caller's catch block turns a failure of addFamilyToUser into
WrapErr(c) == IF c.op = "createFamily" THEN ErrCreateFamily ELSE ErrJoin

\* where the caller goes on after addFamilyToUser returns
\* (list keeps the families array addFamilyToUser read)
AfterAddFamily(c) ==
    IF c.op = "createFamily" THEN Done(c) ELSE [c EXCEPT !.pc = "setStatus"]

\* (mutant: the write issued without the includes test)
AddFamilyNextAlwaysWrite(c, fams) == [c EXCEPT !.pc = "writeUser", !.list = fams]

\* the decision of addFamilyToUser after its getDoc: nothing to write when the
\* family is already listed
AddFamilyNext(c, fams) ==
    IF Includes(fams, c.fam)
    THEN AfterAddFamily([c EXCEPT !.list = fams])
    ELSE [c EXCEPT !.pc = "writeUser", !.list = fams]

\* addFamilyToUser: getDoc of the profile and the decision whether to write
AddFamilyToUserRead(p) ==
    /\ call[p].pc = "readUser"
    /\ UNCHANGED <<families, invites, users, now, nextFamily, nextInvite, calls>>
    /\ \/ /\ users[call[p].auth].exists
          /\ Set(p, AddFamilyNext(call[p], users[call[p].auth].families))
       \/ Set(p, Fail(call[p], WrapErr(call[p])))

\* the array addFamilyToUser writes: the array it read, plus the family
AddedFamily(fams, f) == Append(fams, f)

\* addFamilyToUser: updateDoc of families with the array read before, plus one
AddFamilyToUserWrite(p) ==
    /\ call[p].pc = "writeUser"
    /\ UNCHANGED <<families, invites, now, nextFamily, nextInvite, calls>>
    /\ \/ /\ users' = [users EXCEPT ![call[p].auth].families =
                                        AddedFamily(call[p].list, call[p].fam)]
          /\ Set(p, AfterAddFamily(call[p]))
       \/ /\ UNCHANGED users
          /\ Set(p, Fail(call[p], WrapErr(call[p])))

\* ------------------------------------------------------- createFamilyInvite
\* (mutant: the membership check left out)
InviteCheckNoMembership(u, fam) ==
    IF ~fam.exists THEN ErrFamilyNotFound ELSE ErrNone

\* the preconditions createFamilyInvite checks on the family it read, in order
InviteCheck(u, fam) ==
    IF ~fam.exists THEN ErrFamilyNotFound
    ELSE IF ~Includes(fam.members, u) THEN ErrNotMember
    ELSE ErrNone

\* createFamilyInvite up to the end of getFamilyById: the login check, the
\* read of the family, the membership check, generateId and the expiry date
CreateFamilyInvite(p, u, f) ==
    /\ CanStart(p)
    /\ calls' = calls + 1
    /\ UNCHANGED <<families, invites, users, now, nextFamily>>
    /\ LET c == [Begin("createFamilyInvite", u) EXCEPT !.fam = f] IN
       IF u = NoUser
       THEN /\ Set(p, Fail(c, ErrLogin))
            /\ UNCHANGED nextInvite
       ELSE \/ /\ Set(p, Fail(c, ErrFetchFamily))
               /\ UNCHANGED nextInvite
            \/ /\ InviteCheck(u, families[f]) # ErrNone
               /\ Set(p, Fail(c, InviteCheck(u, families[f])))
               /\ UNCHANGED nextInvite
            \/ /\ InviteCheck(u, families[f]) = ErrNone
               /\ nextInvite \in DOMAIN invites
               /\ nextInvite' = nextInvite + 1
               /\ Set(p, [c EXCEPT !.pc = "setInvite", !.inv = nextInvite,
                                    !.t0 = now, !.expiresAt = ExpiresAt(now)])

\* createFamilyInvite: setDoc of the invite document
CreateInviteWrite(p) ==
    /\ call[p].pc = "setInvite"
    /\ UNCHANGED <<families, users, now, nextFamily, nextInvite, calls>>
    /\ \/ /\ invites' = [invites EXCEPT ![call[p].inv] =
                            NewInviteDoc(call[p].fam, call[p].auth, call[p].expiresAt)]
          /\ Set(p, Done(call[p]))
       \/ /\ UNCHANGED invites
          /\ Set(p, Fail(call[p], ErrCreateInvite))

\* --------------------------------------------------------- acceptFamilyInvite
\* (mutant: the status check left out)
AcceptInviteCheckNoStatus(inv, t) ==
    IF ~inv.exists THEN ErrInviteNotFound
    ELSE IF IsExpired(t, inv.expiresAt) THEN ErrInviteExpired
    ELSE ErrNone

\* (mutant: one message for a used and for an expired invite)
AcceptInviteCheckOneMessage(inv, t) ==
    IF ~inv.exists THEN ErrInviteNotFound
    ELSE IF inv.status # "pending" \/ IsExpired(t, inv.expiresAt) THEN ErrInviteUsed
    ELSE ErrNone

\* the preconditions acceptFamilyInvite checks on the invite it read, in order
AcceptInviteCheck(inv, t) ==
    IF ~inv.exists THEN ErrInviteNotFound
    ELSE IF inv.status # "pending" THEN ErrInviteUsed
    ELSE IF IsExpired(t, inv.expiresAt) THEN ErrInviteExpired
    ELSE ErrNone

\* acceptFamilyInvite up to the end of getInvite: the login check, the read of
\* the invite, the status check and the expiry check
AcceptFamilyInvite(p, u, i) ==
    /\ CanStart(p)
    /\ calls' = calls + 1
    /\ UNCHANGED <<families, invites, users, now, nextFamily, nextInvite>>
    /\ LET c == [Begin("acceptFamilyInvite", u) EXCEPT !.inv = i] IN
       IF u = NoUser
       THEN Set(p, Fail(c, ErrAcceptLogin))
       ELSE \/ Set(p, Fail(c, ErrFetchInvite))
            \/ /\ AcceptInviteCheck(invites[i], now) # ErrNone
               /\ Set(p, Fail(c, AcceptInviteCheck(invites[i], now)))
            \/ /\ AcceptInviteCheck(invites[i], now) = ErrNone
               /\ Set(p, [c EXCEPT !.pc = "readFamily", !.fam = invites[i].familyId])

\* the preconditions acceptFamilyInvite checks on the family it read
AcceptFamilyCheck(u, fam) ==
    IF ~fam.exists THEN ErrFamilyNotFound
    ELSE IF Includes(fam.members, u) THEN ErrAlreadyMember
    ELSE ErrNone

\* acceptFamilyInvite: getFamilyById and the membership check
AcceptReadFamily(p) ==
    /\ call[p].pc = "readFamily"
    /\ UNCHANGED <<families, invites, users, now, nextFamily, nextInvite, calls>>
    /\ LET e == AcceptFamilyCheck(call[p].auth, families[call[p].fam]) IN
       \/ Set(p, Fail(call[p], ErrFetchFamily))
       \/ /\ e # ErrNone
          /\ Set(p, Fail(call[p], e))
       \/ /\ e = ErrNone
          /\ Set(p, [call[p] EXCEPT !.pc = "addMember"])

\* (mutant: the call goes on to its next write when the member write failed)
AcceptAddMemberGoesOn(p) ==
    /\ call[p].pc = "addMember"
    /\ UNCHANGED <<invites, users, now, nextFamily, nextInvite, calls>>
    /\ \/ /\ families' = [families EXCEPT ![call[p].fam].members =
                             ArrayUnion(families[call[p].fam].members, call[p].auth)]
          /\ Set(p, [call[p] EXCEPT !.pc = "readUser"])
       \/ /\ UNCHANGED families
          /\ Set(p, [call[p] EXCEPT !.pc = "readUser"])

\* acceptFamilyInvite: updateDoc(familyRef, {members: arrayUnion(uid)})
AcceptAddMember(p) ==
    /\ call[p].pc = "addMember"
    /\ UNCHANGED <<invites, users, now, nextFamily, nextInvite, calls>>
    /\ \/ /\ families' = [families EXCEPT ![call[p].fam].members =
                             ArrayUnion(families[call[p].fam].members, call[p].auth)]
          /\ Set(p, [call[p] EXCEPT !.pc = "readUser"])
       \/ /\ UNCHANGED families
          /\ Set(p, Fail(call[p], ErrJoin))

\* (mutant: the status written is 'expired')
AcceptedStatusExpired == "expired"

\* the status acceptFamilyInvite writes
AcceptedStatus == "accepted"

\* acceptFamilyInvite: updateDoc(inviteRef, {status: 'accepted'})
AcceptSetStatus(p) ==
    /\ call[p].pc = "setStatus"
    /\ UNCHANGED <<families, users, now, nextFamily, nextInvite, calls>>
    /\ \/ /\ invites' = [invites EXCEPT ![call[p].inv].status = AcceptedStatus]
          /\ Set(p, Done(call[p]))
       \/ /\ UNCHANGED invites
          /\ Set(p, Fail(call[p], ErrJoin))

\* --------------------------------------------------------- removeFamilyMember
\* (mutant: the check that the caller is the admin left out)
RemoveCheckNoOnlyAdmin(u, m, fam) ==
    IF ~fam.exists THEN ErrFamilyNotFound
    ELSE IF m = fam.createdBy THEN ErrRemoveAdmin
    ELSE ErrNone

\* (mutant: the check that the member removed is not the admin left out)
RemoveCheckNoAdminGuard(u, m, fam) ==
    IF ~fam.exists THEN ErrFamilyNotFound
    ELSE IF fam.createdBy # u THEN ErrOnlyAdmin
    ELSE ErrNone

\* the preconditions removeFamilyMember checks on the family it read, in order
RemoveCheck(u, m, fam) ==
    IF ~fam.exists THEN ErrFamilyNotFound
    ELSE IF fam.createdBy # u THEN ErrOnlyAdmin
    ELSE IF m = fam.createdBy THEN ErrRemoveAdmin
    ELSE ErrNone

\* removeFamilyMember up to the end of getFamilyById: the login check, the read
\* of the family, the admin checks and the filtered member list
RemoveFamilyMember(p, u, f, m) ==
    /\ CanStart(p)
    /\ calls' = calls + 1
    /\ UNCHANGED <<families, invites, users, now, nextFamily, nextInvite>>
    /\ LET c == [Begin("removeFamilyMember", u) EXCEPT !.fam = f, !.member = m]
           e == RemoveCheck(u, m, families[f]) IN
       IF u = NoUser
       THEN Set(p, Fail(c, ErrLogin))
       ELSE \/ Set(p, Fail(c, ErrFetchFamily))
            \/ /\ e # ErrNone
               /\ Set(p, Fail(c, e))
            \/ /\ e = ErrNone
               /\ Set(p, [c EXCEPT !.pc = "writeMembers",
                                    !.list = FilterOut(families[f].members, m)])

\* ---------------------------------------------------------------- leaveFamily
\* (mutant: the check that the caller is not the admin left out)
LeaveCheckNoAdminGuard(u, fam) ==
    IF ~fam.exists THEN ErrFamilyNotFound ELSE ErrNone

\* the preconditions leaveFamily checks on the family it read
LeaveCheck(u, fam) ==
    IF ~fam.exists THEN ErrFamilyNotFound
    ELSE IF fam.createdBy = u THEN ErrAdminLeave
    ELSE ErrNone

\* leaveFamily up to the end of getFamilyById
LeaveFamily(p, u, f) ==
    /\ CanStart(p)
    /\ calls' = calls + 1
    /\ UNCHANGED <<families, invites, users, now, nextFamily, nextInvite>>
    /\ LET c == [Begin("leaveFamily", u) EXCEPT !.fam = f, !.member = u]
           e == LeaveCheck(u, families[f]) IN
       IF u = NoUser
       THEN Set(p, Fail(c, ErrLogin))
       ELSE \/ Set(p, Fail(c, ErrFetchFamily))
            \/ /\ e # ErrNone
               /\ Set(p, Fail(c, e))
            \/ /\ e = ErrNone
               /\ Set(p, [c EXCEPT !.pc = "writeMembers",
                                    !.list = FilterOut(families[f].members, u)])

\* (mutant: the family is taken out of the member's own families as well)
WriteMembersAndUser(p) ==
    /\ call[p].pc = "writeMembers"
    /\ UNCHANGED <<invites, now, nextFamily, nextInvite, calls>>
    /\ \/ /\ families' = [families EXCEPT ![call[p].fam].members = call[p].list]
          /\ users' = [users EXCEPT ![call[p].member].families =
                                        FilterOut(@, call[p].fam)]
          /\ Set(p, Done(call[p]))
       \/ /\ UNCHANGED <<families, users>>
          /\ Set(p, Fail(call[p], IF call[p].op = "leaveFamily" THEN ErrLeave
                                                                  ELSE ErrRemove))

\* removeFamilyMember and leaveFamily: updateDoc(familyRef, {members: updatedMembers})
WriteMembers(p) ==
    /\ call[p].pc = "writeMembers"
    /\ UNCHANGED <<invites, users, now, nextFamily, nextInvite, calls>>
    /\ \/ /\ families' = [families EXCEPT ![call[p].fam].members = call[p].list]
          /\ Set(p, Done(call[p]))
       \/ /\ UNCHANGED families
          /\ Set(p, Fail(call[p], IF call[p].op = "leaveFamily" THEN ErrLeave
                                                                  ELSE ErrRemove))

\* ---------------------------------------------------------------------- clock
\* The clock counts days from the day the first expiry date is computed: no code
\* reads the clock before that, so earlier days differ only by a shift of time.
Tick ==
    /\ now < MaxTime
    /\ nextInvite > 1
    /\ now' = now + 1
    /\ ret' = NoRet
    /\ UNCHANGED <<families, invites, users, nextFamily, nextInvite, call, calls,
                   acceptedBy>>
    /\ UNCHANGED envVars
    /\ UNCHANGED shellVars

\* ------------------------------------------------------------- specification
Callers == UserIds \cup {NoUser}

\* the calls of the sessions in P, interleaved at their awaits
NextOf(P) ==
    \/ \E p \in P, u \in Callers : CreateFamily(p, u)
    \/ \E p \in P : AddFamilyToUserRead(p)
    \/ \E p \in P : AddFamilyToUserWrite(p)
    \/ \E p \in P, u \in Callers, f \in FamilyIds : CreateFamilyInvite(p, u, f)
    \/ \E p \in P : CreateInviteWrite(p)
    \/ \E p \in P, u \in Callers, i \in InviteIds : AcceptFamilyInvite(p, u, i)
    \/ \E p \in P : AcceptReadFamily(p)
    \/ \E p \in P : AcceptAddMember(p)
    \/ \E p \in P : AcceptSetStatus(p)
    \/ \E p \in P, u \in Callers, f \in FamilyIds, m \in UserIds :
           RemoveFamilyMember(p, u, f, m)
    \/ \E p \in P, u \in Callers, f \in FamilyIds : LeaveFamily(p, u, f)
    \/ \E p \in P : WriteMembers(p)
    \/ Tick

Next == NextOf(Procs)

\* one session: every call runs to its end before the next one starts
NextSeq == NextOf({"p1"})

Spec == Init /\ [][Next]_vars

SpecSeq == Init /\ [][NextSeq]_vars

\* a call in flight takes its next step: the store answers every request,
\* with the result or with an error
Continue ==
    \E p \in Procs :
        \/ AddFamilyToUserRead(p)
        \/ AddFamilyToUserWrite(p)
        \/ CreateInviteWrite(p)
        \/ AcceptReadFamily(p)
        \/ AcceptAddMember(p)
        \/ AcceptSetStatus(p)
        \/ WriteMembers(p)

\* the sessions with every call in flight running to its end; no session is
\* bound to start another call
SpecLive == Init /\ [][Next]_vars /\ WF_vars(Continue)

\* ------------------------------------------------ joining an existing family
\* A family that has sent out invites: u1 has created family 1 and, on day 0,
\* one invite more than the sessions of Spec get to create, all pending; the
\* store has room for one family more.
JoinFamilyIds == 1..(MaxFamilies + 1)
JoinInviteIds == 1..(MaxInvites + 1)

InitJoin ==
    /\ families = [f \in JoinFamilyIds |->
                      IF f = 1 THEN NewFamilyDoc("u1") ELSE NoFamily]
    /\ invites = [i \in JoinInviteIds |-> NewInviteDoc(1, "u1", ExpiresAt(0))]
    /\ users = [u \in UserIds |->
                   IF u = "u1" THEN [NewUserDoc EXCEPT !.families = <<1>>]
                   ELSE NewUserDoc]
    /\ now = 0
    /\ nextFamily = 2
    /\ nextInvite = MaxInvites + 2
    /\ call = [p \in Procs |-> Idle]
    /\ calls = 0
    /\ ret = NoRet
    /\ acceptedBy = [i \in JoinInviteIds |-> {}]
    /\ env = TestEnv
    /\ isInitialized = TRUE
    /\ firebaseApp = TRUE
    /\ firebaseAuth = TRUE
    /\ firebaseFirestore = TRUE
    /\ firebaseStorage = TRUE
    /\ out = NoOut
    /\ InitAppShell
    /\ authCurrentUser = NoUser
    /\ accounts = UserIds

\* the sessions create families and accept invites
NextJoin ==
    \/ \E p \in Procs, u \in Callers : CreateFamily(p, u)
    \/ \E p \in Procs : AddFamilyToUserRead(p)
    \/ \E p \in Procs : AddFamilyToUserWrite(p)
    \/ \E p \in Procs, u \in Callers, i \in JoinInviteIds : AcceptFamilyInvite(p, u, i)
    \/ \E p \in Procs : AcceptReadFamily(p)
    \/ \E p \in Procs : AcceptAddMember(p)
    \/ \E p \in Procs : AcceptSetStatus(p)

SpecJoin == InitJoin /\ [][NextJoin]_vars

\* ------------------------------------------- environment and Firebase modules
\* the values the settings are drawn from
AppEnvSettings == {Undefined, "", "local", "preview", "production", "staging"}
RootPathSettings == {Undefined, "", "environments/preview", "environments/production"}
ApiKeySettings == {Undefined, "test-api-key"}
ProjectIdSettings == {Undefined, "test-project"}
EmulatorSettings == {Undefined, "true", "false"}

Envs ==
    [appEnv : AppEnvSettings, rootPath : RootPathSettings, apiKey : ApiKeySettings,
     projectId : ProjectIdSettings, useEmulators : EmulatorSettings]

\* the collections of the services, and the names and ids the path functions
\* are applied to
Collections == {"users", "families", "invites"}
CollectionNames == Collections \cup {"expenses"}
DocumentIds == {"u1", "user123", ""}

ErrNoFirestore == "Firestore not initialized. Call initializeFirebase() first."
ErrSdk == "FirebaseError"

CallGetAppEnvironment ==
    /\ out' = Returns("getAppEnvironment", <<>>, GetAppEnvironment(env))
    /\ UNCHANGED firebaseVars
    /\ UNCHANGED serviceVars
    /\ UNCHANGED shellVars

\* isLocalEnvironment, isPreviewEnvironment, isProductionEnvironment
CallIsEnvironment ==
    /\ \/ out' = Returns("isLocalEnvironment", <<>>, IsLocalEnvironment(env))
       \/ out' = Returns("isPreviewEnvironment", <<>>, IsPreviewEnvironment(env))
       \/ out' = Returns("isProductionEnvironment", <<>>, IsProductionEnvironment(env))
    /\ UNCHANGED firebaseVars
    /\ UNCHANGED serviceVars
    /\ UNCHANGED shellVars

CallGetCollectionPath(c) ==
    /\ out' = Returns("getCollectionPath", <<c>>, GetCollectionPath(env, c))
    /\ UNCHANGED firebaseVars
    /\ UNCHANGED serviceVars
    /\ UNCHANGED shellVars

CallGetDocumentPath(c, id) ==
    /\ out' = Returns("getDocumentPath", <<c, id>>, GetDocumentPath(env, c, id))
    /\ UNCHANGED firebaseVars
    /\ UNCHANGED serviceVars
    /\ UNCHANGED shellVars

\* what validateEnvironmentConfig, called as fn, does
Validate(fn) ==
    LET errors == ValidationErrors(env) IN
    IF Len(errors) > 0
    THEN Throws(fn, <<>>, ValidationMessage(errors))
    ELSE [Returns(fn, <<>>, "") EXCEPT !.warned = ValidationWarns(env)]

CallValidateEnvironmentConfig ==
    /\ out' = Validate("validateEnvironmentConfig")
    /\ UNCHANGED firebaseVars
    /\ UNCHANGED serviceVars
    /\ UNCHANGED shellVars

\* the handles initializeFirebase has assigned when its n-th SDK call throws:
\* initializeApp, getAuth, getFirestore, getStorage, and connectToEmulators
SdkCalls == IF UseEmulators(env) THEN 1..5 ELSE 1..4

\* initializeFirebase; each of its Firebase SDK calls may throw, and the catch
\* block rethrows without touching the handles assigned before
InitializeFirebase ==
    /\ UNCHANGED env
    /\ IF isInitialized
       THEN /\ out' = [Returns("initializeFirebase", <<>>, "") EXCEPT !.warned = TRUE]
            /\ UNCHANGED <<isInitialized, firebaseApp, firebaseAuth,
                           firebaseFirestore, firebaseStorage>>
       ELSE IF Validate("initializeFirebase").threw
       THEN /\ out' = Validate("initializeFirebase")
            /\ UNCHANGED <<isInitialized, firebaseApp, firebaseAuth,
                           firebaseFirestore, firebaseStorage>>
       ELSE \/ /\ out' = Validate("initializeFirebase")
               /\ firebaseApp' = TRUE
               /\ firebaseAuth' = TRUE
               /\ firebaseFirestore' = TRUE
               /\ firebaseStorage' = TRUE
               /\ isInitialized' = TRUE
            \/ \E n \in SdkCalls :
               /\ out' = Throws("initializeFirebase", <<>>, ErrSdk)
               /\ firebaseApp' = (firebaseApp \/ n > 1)
               /\ firebaseAuth' = (firebaseAuth \/ n > 2)
               /\ firebaseFirestore' = (firebaseFirestore \/ n > 3)
               /\ firebaseStorage' = (firebaseStorage \/ n > 4)
               /\ UNCHANGED isInitialized

CallInitializeFirebase ==
    /\ InitializeFirebase
    /\ UNCHANGED serviceVars
    /\ UNCHANGED shellVars

\* the getters of the handles and the message each throws
Getters == {"getApp", "getAuthInstance", "getFirestoreInstance", "getStorageInstance"}

Handle(g) ==
    CASE g = "getApp" -> firebaseApp
      [] g = "getAuthInstance" -> firebaseAuth
      [] g = "getFirestoreInstance" -> firebaseFirestore
      [] g = "getStorageInstance" -> firebaseStorage

ErrNoHandle(g) ==
    CASE g = "getApp" -> "Firebase not initialized. Call initializeFirebase() first."
      [] g = "getAuthInstance" -> "Firebase Auth not initialized. Call initializeFirebase() first."
      [] g = "getFirestoreInstance" -> ErrNoFirestore
      [] g = "getStorageInstance" -> "Firebase Storage not initialized. Call initializeFirebase() first."

\* getApp, getAuthInstance, getFirestoreInstance, getStorageInstance
CallGetter(g) ==
    /\ out' = IF Handle(g) THEN Returns(g, <<>>, "instance")
              ELSE Throws(g, <<>>, ErrNoHandle(g))
    /\ UNCHANGED firebaseVars
    /\ UNCHANGED serviceVars
    /\ UNCHANGED shellVars

CallIsFirebaseInitialized ==
    /\ out' = Returns("isFirebaseInitialized", <<>>, isInitialized)
    /\ UNCHANGED firebaseVars
    /\ UNCHANGED serviceVars
    /\ UNCHANGED shellVars

\* (mutant: the reference built from the bare collection name)
GetDocRefPathBare(e, collectionName, documentId) == collectionName \o "/" \o documentId

\* getDocRef: the path of doc(db, getCollectionPath(collectionName), documentId)
GetDocRefPath(e, collectionName, documentId) ==
    GetCollectionPath(e, collectionName) \o "/" \o documentId

\* a read or write of a service at the document getDocRef(c, id) names; what
\* the SDK's doc() makes of an empty id is not the repository's code
StoreAccess(c, id) ==
    /\ UNCHANGED firebaseVars
    /\ UNCHANGED serviceVars
    /\ UNCHANGED shellVars
    /\ IF ~firebaseFirestore
       THEN out' = Throws("getDocRef", <<c, id>>, ErrNoFirestore)
       ELSE \/ out' = Returns("getDocRef", <<c, id>>, GetDocRefPath(env, c, id))
            \/ /\ id = ""
               /\ out' = Throws("getDocRef", <<c, id>>, ErrSdk)

InitEnv ==
    /\ InitService
    /\ env \in Envs
    /\ isInitialized = FALSE
    /\ firebaseApp = FALSE
    /\ firebaseAuth = FALSE
    /\ firebaseFirestore = FALSE
    /\ firebaseStorage = FALSE
    /\ out = NoOut
    /\ InitAppShell
    /\ authCurrentUser = NoUser
    /\ accounts = UserIds

NextEnv ==
    \/ CallGetAppEnvironment
    \/ CallIsEnvironment
    \/ \E c \in CollectionNames : CallGetCollectionPath(c)
    \/ \E c \in CollectionNames, id \in DocumentIds : CallGetDocumentPath(c, id)
    \/ CallValidateEnvironmentConfig
    \/ CallInitializeFirebase
    \/ \E g \in Getters : CallGetter(g)
    \/ CallIsFirebaseInitialized
    \/ \E c \in Collections, id \in DocumentIds : StoreAccess(c, id)

SpecEnv == InitEnv /\ [][NextEnv]_vars

\* ================================================== app shell and auth service
AppRoutes == {"login", "signup", "dashboard", "expenses", "add-expense",
              "family", "settings", "invite"}

\* what window.location.hash.slice(1) can be: empty, a route, anything else
Hashes == AppRoutes \cup {"", "reports"}

\* the routes of the sidebar and of the bottom bar
NavRoutes == {"dashboard", "expenses", "add-expense", "family", "settings"}

\* convertFirestoreUser of the profile document of u
UserOf(u) == [id |-> u, families |-> users[u].families]

\* AppShell.renderCurrentPage
RenderCurrentPage ==
    IF currentRoute \in {"dashboard", "expenses", "add-expense", "family", "settings"}
    THEN currentRoute
    ELSE "not-found"

\* (mutant: the page chosen by the route alone)
RenderByRoute ==
    IF isLoading THEN [view |-> "loading", page |-> "loading-spinner"]
    ELSE IF currentRoute = "signup" THEN [view |-> "auth", page |-> "signup-page"]
    ELSE IF currentRoute = "login" THEN [view |-> "auth", page |-> "login-page"]
    ELSE [view |-> "app", page |-> RenderCurrentPage]

\* AppShell.render: the spinner, the auth container with the signup or the
\* login page, or the authenticated layout with the page of the route
Render ==
    IF isLoading THEN [view |-> "loading", page |-> "loading-spinner"]
    ELSE IF currentUser = NullUser
    THEN [view |-> "auth",
          page |-> IF currentRoute = "signup" THEN "signup-page" ELSE "login-page"]
    ELSE [view |-> "app", page |-> RenderCurrentPage]

\* connectedCallback has run: handleRoute listens to hashchange
Connected == unsubscribeAuth \/ ~isLoading

\* the shell's handler ran with this argument
Handled(fn, arg) == Returns(fn, <<arg>>, "")

\* onAuthStateChanged: Firebase Auth calls the listener when the signed-in
\* user changes; for a user the listener starts getUserById
Listener(u, v) ==
    IF unsubscribeAuth /\ authReady /\ v # u /\ v # NoUser
    THEN [lookups EXCEPT ![v] = @ + 1]
    ELSE lookups

\* the callback's choice of the family: the first one if none is selected
SelectFirstFamily(user) ==
    IF Len(user.families) > 0 /\ selectedFamilyId = NoId
    THEN user.families[1]
    ELSE selectedFamilyId

\* the callback AppShell.initializeApp passes to onAuthStateChange
AuthCallback(user) ==
    /\ currentUser' = user
    /\ isLoading' = FALSE
    /\ IF user # NullUser
       THEN /\ currentRoute' = IF currentRoute \in {"login", "signup"}
                               THEN "dashboard" ELSE currentRoute
            /\ selectedFamilyId' = SelectFirstFamily(user)
       ELSE /\ currentRoute' = IF currentRoute \notin {"login", "signup"}
                               THEN "login" ELSE currentRoute
            /\ UNCHANGED selectedFamilyId

\* connectedCallback with the hash h: initializeApp (initializeFirebase, then
\* the subscription, or the catch block) and setupRouting
ConnectedCallback(h) ==
    /\ ~Connected
    /\ InitializeFirebase
    /\ unsubscribeAuth' = ~out'.threw
    /\ isLoading' = ~out'.threw
    /\ currentRoute' = IF h = "" THEN "login" ELSE h
    /\ UNCHANGED <<currentUser, selectedFamilyId, authReady, authCurrentUser,
                   accounts, lookups, signUpCall, authEvents>>
    /\ UNCHANGED serviceVars

\* Firebase Auth reports its initial state (the persisted session) to the
\* listener
AuthStateReady ==
    /\ unsubscribeAuth
    /\ ~authReady
    /\ authReady' = TRUE
    /\ UNCHANGED <<unsubscribeAuth, authCurrentUser, accounts, signUpCall, authEvents>>
    /\ UNCHANGED firebaseVars
    /\ UNCHANGED serviceVars
    /\ IF authCurrentUser # NoUser
       THEN /\ lookups' = [lookups EXCEPT ![authCurrentUser] = @ + 1]
            /\ out' = Handled("onAuthStateChanged", authCurrentUser)
            /\ UNCHANGED <<isLoading, currentUser, currentRoute, selectedFamilyId>>
       ELSE /\ AuthCallback(NullUser)
            /\ out' = Handled("onAuthStateChanged", NoUser)
            /\ UNCHANGED lookups

\* the listener's getUserById for u resolves (the profile, or null when there
\* is no document) or rejects, and the listener calls the callback
ListenerDelivers(u) ==
    /\ lookups[u] > 0
    /\ lookups' = [lookups EXCEPT ![u] = @ - 1]
    /\ UNCHANGED <<unsubscribeAuth, authReady, authCurrentUser, accounts,
                   signUpCall, authEvents>>
    /\ UNCHANGED firebaseVars
    /\ UNCHANGED serviceVars
    /\ \/ /\ AuthCallback(IF users[u].exists THEN UserOf(u) ELSE NullUser)
          /\ out' = Handled("getUserById", u)
       \/ /\ AuthCallback(NullUser)
          /\ out' = Throws("getUserById", <<u>>, "Failed to fetch user data")

\* the hashchange handler of setupRouting
HandleRoute(h) ==
    /\ Connected
    /\ currentRoute' = IF h = "" THEN "login" ELSE h
    /\ out' = Handled("handleRoute", h)
    /\ UNCHANGED <<isLoading, currentUser, selectedFamilyId, unsubscribeAuth,
                   authReady, authCurrentUser, accounts, lookups, signUpCall,
                   authEvents>>
    /\ UNCHANGED firebaseVars
    /\ UNCHANGED serviceVars

\* a navigate event of the page rendered: the link of the login or the signup
\* page, an entry of the sidebar or of the bottom bar
HandleNavigate(r) ==
    /\ \/ Render.page = "login-page" /\ r = "signup"
       \/ Render.page = "signup-page" /\ r = "login"
       \/ Render.view = "app" /\ r \in NavRoutes
    /\ currentRoute' = r
    /\ out' = Handled("handleNavigate", r)
    /\ UNCHANGED <<isLoading, currentUser, selectedFamilyId, unsubscribeAuth,
                   authReady, authCurrentUser, accounts, lookups, signUpCall,
                   authEvents>>
    /\ UNCHANGED firebaseVars
    /\ UNCHANGED serviceVars

\* a family-select event of the sidebar or of the family page: one of the
\* families getUserFamilies finds for the signed-in user
HandleFamilySelect(f) ==
    /\ Render.view = "app"
    /\ authCurrentUser # NoUser
    /\ families[f].exists
    /\ Includes(families[f].members, authCurrentUser)
    /\ selectedFamilyId' = f
    /\ out' = Handled("handleFamilySelect", f)
    /\ UNCHANGED <<isLoading, currentUser, currentRoute, unsubscribeAuth,
                   authReady, authCurrentUser, accounts, lookups, signUpCall,
                   authEvents>>
    /\ UNCHANGED firebaseVars
    /\ UNCHANGED serviceVars

\* the login page's login: signInWithEmailAndPassword resolves or rejects
Login(u) ==
    /\ Render.page = "login-page"
    /\ authEvents < MaxAuthEvents
    /\ authEvents' = authEvents + 1
    /\ UNCHANGED <<isLoading, currentUser, currentRoute, selectedFamilyId,
                   unsubscribeAuth, authReady, accounts, signUpCall>>
    /\ UNCHANGED firebaseVars
    /\ UNCHANGED serviceVars
    /\ \/ /\ firebaseAuth
          /\ u \in accounts
          /\ authCurrentUser' = u
          /\ lookups' = Listener(authCurrentUser, u)
          /\ out' = Returns("login", <<u>>, "")
       \/ /\ out' = Throws("login", <<u>>, "auth error")
          /\ UNCHANGED <<authCurrentUser, lookups>>

\* the header's logout: signOut, which the listener passes on as
\* callback(null), and then the logout event the shell handles with
\* handleLogout; or signOut rejects and no event is sent
Logout ==
    /\ Render.view = "app"
    /\ authEvents < MaxAuthEvents
    /\ authEvents' = authEvents + 1
    /\ UNCHANGED <<isLoading, unsubscribeAuth, authReady, accounts, lookups,
                   signUpCall>>
    /\ UNCHANGED firebaseVars
    /\ UNCHANGED serviceVars
    /\ \/ /\ authCurrentUser' = NoUser
          /\ currentUser' = NullUser
          /\ selectedFamilyId' = NoId
          /\ currentRoute' = "login"
          /\ out' = Handled("handleLogout", authCurrentUser)
       \/ /\ out' = Throws("logout", <<>>, "Failed to log out")
          /\ UNCHANGED <<authCurrentUser, currentUser, selectedFamilyId, currentRoute>>

\* Firebase Auth signs the user out without the header's logout (the session
\* ended in another tab, or the account was disabled): the listener gets null
SignedOutElsewhere ==
    /\ unsubscribeAuth
    /\ authReady
    /\ authCurrentUser # NoUser
    /\ authEvents < MaxAuthEvents
    /\ authEvents' = authEvents + 1
    /\ authCurrentUser' = NoUser
    /\ AuthCallback(NullUser)
    /\ out' = Handled("onAuthStateChanged", NoUser)
    /\ UNCHANGED <<unsubscribeAuth, authReady, accounts, lookups, signUpCall>>
    /\ UNCHANGED firebaseVars
    /\ UNCHANGED serviceVars

\* signUp, first await: createUserWithEmailAndPassword creates the account and
\* signs the new user in, which Firebase Auth reports to the listener
SignUp(u) ==
    /\ Render.page = "signup-page"
    /\ signUpCall.pc \in {"idle", "done", "failed"}
    /\ authEvents < MaxAuthEvents
    /\ authEvents' = authEvents + 1
    /\ UNCHANGED <<isLoading, currentUser, currentRoute, selectedFamilyId,
                   unsubscribeAuth, authReady>>
    /\ UNCHANGED firebaseVars
    /\ UNCHANGED serviceVars
    /\ \/ /\ firebaseAuth
          /\ u \notin accounts
          /\ accounts' = accounts \cup {u}
          /\ authCurrentUser' = u
          /\ lookups' = Listener(authCurrentUser, u)
          /\ signUpCall' = [pc |-> "updateProfile", uid |-> u]
          /\ out' = Handled("createUserWithEmailAndPassword", u)
       \/ /\ signUpCall' = [pc |-> "failed", uid |-> u]
          /\ out' = Throws("signUp", <<u>>, "auth error")
          /\ UNCHANGED <<accounts, authCurrentUser, lookups>>

\* signUp, second await: updateProfile
SignUpUpdateProfile ==
    /\ signUpCall.pc = "updateProfile"
    /\ UNCHANGED <<isLoading, currentUser, currentRoute, selectedFamilyId,
                   unsubscribeAuth, authReady, authCurrentUser, accounts,
                   lookups, authEvents>>
    /\ UNCHANGED firebaseVars
    /\ UNCHANGED serviceVars
    /\ \/ /\ signUpCall' = [signUpCall EXCEPT !.pc = "setDoc"]
          /\ out' = Handled("updateProfile", signUpCall.uid)
       \/ /\ signUpCall' = [signUpCall EXCEPT !.pc = "failed"]
          /\ out' = Throws("signUp", <<signUpCall.uid>>, "auth error")

\* signUp, third await: setDoc of the profile document, and the return
SignUpSetDoc ==
    /\ signUpCall.pc = "setDoc"
    /\ UNCHANGED <<isLoading, currentUser, currentRoute, selectedFamilyId,
                   unsubscribeAuth, authReady, authCurrentUser, accounts,
                   lookups, authEvents>>
    /\ UNCHANGED firebaseVars
    /\ UNCHANGED <<families, invites, now, nextFamily, nextInvite, call, calls,
                   ret, acceptedBy>>
    /\ \/ /\ firebaseFirestore
          /\ users' = [users EXCEPT ![signUpCall.uid] = NewUserDoc]
          /\ signUpCall' = [signUpCall EXCEPT !.pc = "done"]
          /\ out' = Returns("signUp", <<signUpCall.uid>>, "")
       \/ /\ signUpCall' = [signUpCall EXCEPT !.pc = "failed"]
          /\ out' = Throws("signUp", <<signUpCall.uid>>, "auth error")
          /\ UNCHANGED users

\* the app opened in a browser: u1 and u2 have signed up and each has created
\* a family, u3 has no account; the browser may hold u1's session
InitShell ==
    /\ families = [f \in JoinFamilyIds |->
                      IF f = 1 THEN NewFamilyDoc("u1") ELSE NewFamilyDoc("u2")]
    /\ invites = [i \in InviteIds |-> NoInvite]
    /\ users = [u \in UserIds |->
                   IF u = "u1" THEN [NewUserDoc EXCEPT !.families = <<1>>]
                   ELSE IF u = "u2" THEN [NewUserDoc EXCEPT !.families = <<2>>]
                   ELSE [exists |-> FALSE, families |-> <<>>]]
    /\ now = 0
    /\ nextFamily = 3
    /\ nextInvite = 1
    /\ call = [p \in Procs |-> Idle]
    /\ calls = 0
    /\ ret = NoRet
    /\ acceptedBy = [i \in InviteIds |-> {}]
    /\ env = TestEnv
    /\ isInitialized = FALSE
    /\ firebaseApp = FALSE
    /\ firebaseAuth = FALSE
    /\ firebaseFirestore = FALSE
    /\ firebaseStorage = FALSE
    /\ out = NoOut
    /\ InitAppShell
    /\ authCurrentUser \in {NoUser, "u1"}
    /\ accounts = {"u1", "u2"}

\* the calls whose awaited operation resolves or rejects
ShellContinue ==
    \/ AuthStateReady
    \/ \E u \in UserIds : ListenerDelivers(u)
    \/ SignUpUpdateProfile
    \/ SignUpSetDoc

NextShell ==
    \/ \E h \in Hashes : ConnectedCallback(h)
    \/ AuthStateReady
    \/ \E u \in UserIds : ListenerDelivers(u)
    \/ \E h \in Hashes : HandleRoute(h)
    \/ \E r \in AppRoutes : HandleNavigate(r)
    \/ \E f \in JoinFamilyIds : HandleFamilySelect(f)
    \/ \E u \in UserIds : Login(u)
    \/ Logout
    \/ SignedOutElsewhere
    \/ \E u \in UserIds : SignUp(u)
    \/ SignUpUpdateProfile
    \/ SignUpSetDoc

SpecShell == InitShell /\ [][NextShell]_vars

\* every awaited operation of the listener and of signUp settles
SpecShellLive == InitShell /\ [][NextShell]_vars /\ WF_vars(ShellContinue)

\* ==================================================================== claims
\* a call has started in this step
Started == calls' = calls + 1

\* the slot a call starts in
StartSlot == IF Free("p1") THEN "p1" ELSE "p2"

\* the call started in this step, as its first step left it: in flight, or ended
StartedCall == IF ret' # NoRet THEN ret' ELSE call'[StartSlot]

\* the call in flight in slot p has taken a step
Stepped(p) == ~Free(p) /\ call'[p] # call[p]

\* the call of slot p as its step left it: in flight, or ended
StepResult(p) == IF Free(p)' THEN ret' ELSE call'[p]

Returned(op) == ret.op = op /\ ret.pc = "done"

Threw(op, e) == ret.op = op /\ ret.pc = "failed" /\ ret.err = e

\* failures of the store itself, as the service functions report them
StoreErrors == {ErrFetchInvite, ErrFetchFamily, ErrJoin, ErrCreateFamily,
                ErrCreateInvite, ErrRemove, ErrLeave}

\* invite already used, invite expired, caller already a member
StateConflictErrors == {ErrInviteUsed, ErrInviteExpired, ErrAlreadyMember}

StoreUnchanged == UNCHANGED <<families, invites, users>>

\* C1: acceptFamilyInvite returns successfully to at most one user per invite,
\* however the calls interleave; a call on an invite another user's call has
\* succeeded on, by a logged-in caller who is not the family's creator and met
\* no store failure, fails with a state-conflict error, and if that error is
\* 'already used' the caller is neither among the family's members nor lists
\* the family.
C1_ExactlyOneAcceptSucceeds ==
    /\ \A i \in InviteIds : Cardinality(acceptedBy[i]) <= 1
    /\ ( /\ ret.op = "acceptFamilyInvite"
         /\ ret.auth # NoUser
         /\ ret.err \notin StoreErrors
         /\ ret.inv \in InviteIds
         /\ acceptedBy[ret.inv] \ {ret.auth} # {}
         /\ ret.auth # families[invites[ret.inv].familyId].createdBy )
       => /\ ret.pc = "failed"
          /\ ret.err \in StateConflictErrors
          /\ ret.err = ErrInviteUsed =>
                /\ ~Includes(families[invites[ret.inv].familyId].members, ret.auth)
                /\ ~Includes(users[ret.auth].families, invites[ret.inv].familyId)

\* C2: in one session (calls one after the other): createFamily by u returns
\* with the family holding members = [u] and createdBy = u; createFamilyInvite
\* returns with the invite pending; the acceptFamilyInvite that follows by v
\* returns with members = [u, v] and the invite accepted; every later
\* acceptFamilyInvite on that invite that reads it fails with the 'already
\* used' error and changes no document.
C2_Scenario ==
    /\ Returned("createFamily")
          => /\ families[ret.fam].members = <<ret.auth>>
             /\ families[ret.fam].createdBy = ret.auth
    /\ Returned("createFamilyInvite")
          => /\ invites[ret.inv].exists
             /\ invites[ret.inv].status = "pending"
             /\ invites[ret.inv].familyId = ret.fam
    /\ (Returned("acceptFamilyInvite") /\ calls = 3)
          => /\ families[ret.fam].members = <<families[ret.fam].createdBy, ret.auth>>
             /\ ret.auth # families[ret.fam].createdBy
             /\ invites[ret.inv].status = "accepted"

C2_LaterAcceptRejected ==
    LET c == StartedCall IN
    (Started /\ c.op = "acceptFamilyInvite" /\ c.auth # NoUser
        /\ invites[c.inv].status = "accepted" /\ c.err # ErrFetchInvite)
    => /\ c.pc = "failed"
       /\ c.err = ErrInviteUsed
       /\ StoreUnchanged

C2_EndToEnd == [][C2_Scenario' /\ C2_LaterAcceptRejected]_vars

\* the scenario has run to its end: family, invite, acceptance, refused second
\* acceptance
C2_Witness ==
    /\ calls = 4
    /\ Threw("acceptFamilyInvite", ErrInviteUsed)
    /\ ret.auth = "u2"
    /\ acceptedBy[1] = {"u2"}
    /\ families[1].members = <<"u1", "u2">>
    /\ invites[1].status = "accepted"

\* C3: the expiry date createFamilyInvite computes at clock time T, and the one
\* it stores, is T + 7 days; an acceptFamilyInvite by a logged-in caller that
\* reads a pending invite at a time later than its expiresAt fails with the
\* 'expired' error (not 'already used', login or not-found) and changes no
\* document.
C3_ExpiresAt ==
    /\ \A p \in Procs :
          (call[p].op = "createFamilyInvite" /\ call[p].pc = "setInvite")
          => call[p].expiresAt = call[p].t0 + 7
    /\ Returned("createFamilyInvite") => invites[ret.inv].expiresAt = ret.t0 + 7

C3_LateAccept ==
    LET c == StartedCall IN
    ( /\ Started
      /\ c.op = "acceptFamilyInvite"
      /\ c.auth # NoUser
      /\ invites[c.inv].exists
      /\ invites[c.inv].status = "pending"
      /\ now > invites[c.inv].expiresAt
      /\ c.err # ErrFetchInvite )
    => /\ c.pc = "failed"
       /\ c.err = ErrInviteExpired
       /\ StoreUnchanged

C3_InviteExpiry == [][C3_ExpiresAt' /\ C3_LateAccept]_vars

\* an invite created at day 0, still pending, refused as expired after day 7
C3_Witness ==
    /\ Threw("acceptFamilyInvite", ErrInviteExpired)
    /\ invites[ret.inv].status = "pending"
    /\ invites[ret.inv].expiresAt = 7
    /\ now = 8

\* C4: acceptFamilyInvite fails with a message of its own for each failed
\* precondition (not logged in, invite missing, invite not pending, invite
\* expired, family missing, caller a member already), so does createFamilyInvite
\* (not logged in, family missing, caller not a member); the message tells the
\* precondition that failed, a call with a failed precondition does not go on,
\* and the failing step changes no invite, family or user document.
C4_AcceptErrors == {ErrAcceptLogin, ErrInviteNotFound, ErrInviteUsed,
                    ErrInviteExpired, ErrFamilyNotFound, ErrAlreadyMember}

C4_InviteErrors == {ErrLogin, ErrFamilyNotFound, ErrNotMember}

C4_AcceptStart ==
    LET c == StartedCall
        inv == invites[c.inv]
        in == c.auth # NoUser IN
    (Started /\ c.op = "acceptFamilyInvite" /\ c.err # ErrFetchInvite)
    => /\ c.err \in {ErrNone, ErrAcceptLogin, ErrInviteNotFound, ErrInviteUsed,
                     ErrInviteExpired}
       /\ (c.err = ErrNone) <=> (c.pc = "readFamily")
       /\ (c.err # ErrNone) <=> (c.pc = "failed")
       /\ (c.err = ErrAcceptLogin) <=> ~in
       /\ (c.err = ErrInviteNotFound) <=> (in /\ ~inv.exists)
       /\ (c.err = ErrInviteUsed) <=> (in /\ inv.exists /\ inv.status # "pending")
       /\ (c.err = ErrInviteExpired) <=>
              (in /\ inv.exists /\ inv.status = "pending" /\ now > inv.expiresAt)
       /\ StoreUnchanged

C4_AcceptFamily(p) ==
    LET c == StepResult(p)
        fam == families[c.fam] IN
    (Stepped(p) /\ call[p].pc = "readFamily" /\ c.err # ErrFetchFamily)
    => /\ c.err \in {ErrNone, ErrFamilyNotFound, ErrAlreadyMember}
       /\ (c.err = ErrNone) <=> (c.pc = "addMember")
       /\ (c.err # ErrNone) <=> (c.pc = "failed")
       /\ (c.err = ErrFamilyNotFound) <=> ~fam.exists
       /\ (c.err = ErrAlreadyMember) <=> (fam.exists /\ c.auth \in Elems(fam.members))
       /\ StoreUnchanged

C4_InviteStart ==
    LET c == StartedCall
        fam == families[c.fam]
        in == c.auth # NoUser IN
    (Started /\ c.op = "createFamilyInvite" /\ c.err # ErrFetchFamily)
    => /\ c.err \in {ErrNone, ErrLogin, ErrFamilyNotFound, ErrNotMember}
       /\ (c.err = ErrNone) <=> (c.pc = "setInvite")
       /\ (c.err # ErrNone) <=> (c.pc = "failed")
       /\ (c.err = ErrLogin) <=> ~in
       /\ (c.err = ErrFamilyNotFound) <=> (in /\ ~fam.exists)
       /\ (c.err = ErrNotMember) <=>
              (in /\ fam.exists /\ c.auth \notin Elems(fam.members))
       /\ StoreUnchanged

C4_PreconditionErrors ==
    [][ /\ Cardinality(C4_AcceptErrors) = 6
        /\ Cardinality(C4_InviteErrors) = 3
        /\ C4_AcceptStart
        /\ C4_InviteStart
        /\ \A p \in Procs : C4_AcceptFamily(p)
      ]_vars

\* an accept that passed the checks on the invite and is refused at the check
\* on the family, the caller having become a member meanwhile
C4_Witness ==
    /\ Threw("acceptFamilyInvite", ErrAlreadyMember)
    /\ ret.auth # families[ret.fam].createdBy
    /\ acceptedBy[ret.inv] = {}
    /\ invites[ret.inv].status = "pending"

\* C5: a removeFamilyMember whose memberId is the creator of the family, by
\* whatever caller, and a leaveFamily called by the creator, never get to their
\* write and end failed; no step of such a call changes the families.
C5_CreatorCall(c) ==
    /\ c.op \in {"removeFamilyMember", "leaveFamily"}
    /\ families[c.fam].exists
    /\ c.member = families[c.fam].createdBy

C5_Fails ==
    /\ \A p \in Procs : ~C5_CreatorCall(call[p])
    /\ C5_CreatorCall(ret) => ret.pc = "failed"

C5_NoChange == (Started /\ C5_CreatorCall(StartedCall)) => UNCHANGED families

C5_CreatorStays == [][C5_Fails' /\ C5_NoChange]_vars

\* the creator of a family of two refused as the member to remove
C5_Witness ==
    /\ Threw("removeFamilyMember", ErrRemoveAdmin)
    /\ ret.member = "u1" /\ ret.auth = "u1"
    /\ families[ret.fam].members = <<"u1", "u2">>

\* C6: the creator of every existing family is one of its members, in every
\* state any interleaving of createFamily, acceptFamilyInvite,
\* removeFamilyMember and leaveFamily reaches.
C6_CreatorIsMember ==
    \A f \in FamilyIds :
        families[f].exists => Includes(families[f].members, families[f].createdBy)

\* a member who joined has been removed by the creator, who stays
C6_Witness ==
    /\ Returned("removeFamilyMember")
    /\ ret.member = "u2" /\ ret.auth = "u1"
    /\ Includes(users["u2"].families, ret.fam)
    /\ families[ret.fam].members = <<"u1">>

\* C7: the status of a stored invite is 'pending' or 'accepted', never
\* 'expired', and an accepted invite stays accepted whatever step follows.
C7_Status(i) == invites[i].exists => invites[i].status \in {"pending", "accepted"}

C7_StatusOnlyAccepted ==
    [][\A i \in InviteIds :
          /\ C7_Status(i)'
          /\ invites[i].status = "accepted" => invites'[i].status = "accepted"]_vars

\* an accepted invite on which a second acceptFamilyInvite has written too
C7_Witness ==
    /\ Returned("acceptFamilyInvite")
    /\ Cardinality(acceptedBy[ret.inv]) = 2
    /\ invites[ret.inv].status = "accepted"

\* C8: createFamilyInvite gets to write an invite only when its read of the
\* family found the logged-in caller among the members; the invite it writes is
\* new, pending and names the caller; a call whose read finds the caller not
\* among the members fails with the not-a-member error and writes no invite;
\* no other step creates an invite.
C8_Check ==
    LET c == StartedCall
        fam == families[c.fam] IN
    (Started /\ c.op = "createFamilyInvite")
    => /\ c.pc = "setInvite" =>
             (c.auth # NoUser /\ fam.exists /\ c.auth \in Elems(fam.members))
       /\ (c.auth # NoUser /\ fam.exists /\ c.auth \notin Elems(fam.members)
             /\ c.err # ErrFetchFamily)
          => (c.pc = "failed" /\ c.err = ErrNotMember)
       /\ UNCHANGED invites

C8_Write(i) ==
    (invites'[i] # invites[i] /\ ~invites[i].exists)
    => \E p \in Procs :
          /\ call[p].op = "createFamilyInvite" /\ call[p].pc = "setInvite"
          /\ StepResult(p).pc = "done"
          /\ call[p].inv = i
          /\ invites'[i].status = "pending"
          /\ invites'[i].invitedBy = call[p].auth
          /\ invites'[i].familyId = call[p].fam

C8_InviteByMemberOnly == [][C8_Check /\ (\A i \in InviteIds : C8_Write(i))]_vars

\* an invite written for a member, and a non-member's call refused
C8_Witness ==
    /\ Threw("createFamilyInvite", ErrNotMember)
    /\ invites[1].exists /\ invites[1].status = "pending"
    /\ Includes(families[invites[1].familyId].members, invites[1].invitedBy)
    /\ ~Includes(families[ret.fam].members, ret.auth)

\* C9: the arrayUnion write of acceptFamilyInvite adds the caller to the
\* members if absent and leaves the members as they are if present: no member
\* is listed twice, and a second application with the same user changes
\* nothing.
C9_NoDuplicate == \A f \in FamilyIds : NoDup(families[f].members)

C9_AddStep ==
    \A p \in Procs :
        (call[p].pc = "addMember" /\ call'[p].pc = "readUser")
        => LET old == families[call[p].fam].members
               new == families'[call[p].fam].members IN
           /\ Elems(new) = Elems(old) \cup {call[p].auth}
           /\ call[p].auth \in Elems(old) => new = old
           /\ Len(new) <= Len(old) + 1

C9_ArrayUnionIdempotent == [][C9_NoDuplicate' /\ C9_AddStep]_vars

IsAccept(p) == call[p].op = "acceptFamilyInvite"

\* two accepts of the same user have both applied arrayUnion to one family
C9_Witness ==
    /\ IsAccept("p1") /\ IsAccept("p2")
    /\ call["p1"].auth = call["p2"].auth
    /\ call["p1"].fam = call["p2"].fam
    /\ call["p1"].pc \in {"readUser", "writeUser", "setStatus"}
    /\ call["p2"].pc \in {"readUser", "writeUser", "setStatus"}
    /\ families[call["p1"].fam].members = <<"u1", call["p1"].auth>>

\* C10: when the profile read by addFamilyToUser lists the family already, the
\* call goes on without a write and without an error; the array it writes
\* otherwise did not hold the family, so no user's families list an id twice
\* and a second call with the same arguments leaves the list as the first did.
C10_Write(p) ==
    call[p].pc = "writeUser" => ~Includes(call[p].list, call[p].fam)

C10_Skip(p) ==
    (call[p].pc = "readUser" /\ Includes(users[call[p].auth].families, call[p].fam))
    => LET c == AddFamilyNext(call[p], users[call[p].auth].families) IN
       /\ c.pc = (IF call[p].op = "createFamily" THEN "done" ELSE "setStatus")
       /\ c.err = ErrNone

C10_AddFamilyIdempotent ==
    /\ \A p \in Procs : C10_Write(p) /\ C10_Skip(p)
    /\ \A u \in UserIds : NoDup(users[u].families)

\* an addFamilyToUser that found the family listed and went on without writing
C10_Witness ==
    \E p \in Procs :
        /\ IsAccept(p) /\ call[p].pc = "setStatus"
        /\ Includes(call[p].list, call[p].fam)
        /\ users[call[p].auth].families = <<call[p].fam>>

\* the modes, and the root path the deployment guide gives each
Modes == {"local", "preview", "production"}

ModeRoot(m) == IF m = "local" THEN "" ELSE "environments/" \o m

\* the process is configured for mode m as the deployment guide sets it up
Configured(m) == GetAppEnvironment(env) = m /\ GetFirestoreRootPath(env) = ModeRoot(m)

\* the settings of this process, turned into the configuration of mode m
ConfigFor(m) == [env EXCEPT !.appEnv = m, !.rootPath = ModeRoot(m)]

\* C11: getCollectionPath(name) is the bare name in the local configuration,
\* 'environments/preview/<name>' in the preview one and
\* 'environments/production/<name>' in the production one, and the paths of
\* one name in the three configurations are pairwise distinct.
C11_CollectionPaths ==
    out.fn = "getCollectionPath" =>
    LET name == out.arg[1] IN
    /\ Configured("local") => out.val = name
    /\ Configured("preview") => out.val = "environments/preview/" \o name
    /\ Configured("production") => out.val = "environments/production/" \o name
    /\ \A m \in Modes :
          Configured(m) =>
          \A m2 \in Modes \ {m} : out.val # GetCollectionPath(ConfigFor(m2), name)

\* the path of the users collection in the preview configuration
C11_Witness ==
    /\ out.fn = "getCollectionPath"
    /\ Configured("preview")
    /\ out.arg = <<"users">>
    /\ out.val = "environments/preview/users"

\* C12: for non-empty c and id, getDocumentPath(c, id) is getCollectionPath(c),
\* then '/', then id; in production with root path 'environments/production',
\* getDocumentPath('users', 'u1') is 'environments/production/users/u1'.
C12_DocumentPath ==
    (out.fn = "getDocumentPath" /\ out.arg[1] # "" /\ out.arg[2] # "") =>
    /\ ~out.threw
    /\ out.val = GetCollectionPath(env, out.arg[1]) \o "/" \o out.arg[2]
    /\ Len(out.val) = Len(GetCollectionPath(env, out.arg[1])) + 1 + Len(out.arg[2])
    /\ (Configured("production") /\ out.arg = <<"users", "u1">>)
          => out.val = "environments/production/users/u1"

\* the end-to-end scenario of the production configuration
C12_Witness ==
    /\ out.fn = "getDocumentPath"
    /\ Configured("production")
    /\ out.arg = <<"users", "u1">>
    /\ out.val = "environments/production/users/u1"

\* C13: in every configuration under which initializeFirebase has succeeded
\* (validateEnvironmentConfig raised nothing), the root path is empty if and
\* only if the mode is local.
C13_RootPathIffLocal ==
    isInitialized => (GetFirestoreRootPath(env) = "" <=> GetAppEnvironment(env) = "local")

\* C14: validateEnvironmentConfig throws when the mode is preview or
\* production and the root path is not set.
C14_ValidateRejectsMissingRoot ==
    ( /\ out.fn = "validateEnvironmentConfig"
      /\ GetAppEnvironment(env) \in {"preview", "production"}
      /\ Falsy(env.rootPath) )
    => out.threw

\* the settings validateEnvironmentConfig requires, when not given
MissingApiKey == Falsy(env.apiKey) /\ env.useEmulators # "true"

MissingProjectId == Falsy(env.projectId)

\* C15: validateEnvironmentConfig makes all its checks before it fails: it
\* throws exactly when a setting it requires (the API key unless the emulators
\* are used, the project id) is missing, one error whose message lists every
\* missing one, and nothing when none is missing; initializeFirebase fails
\* with that error and leaves Firebase not initialized (no instance created).
C15_AggregatedErrors ==
    /\ out.fn \in {"validateEnvironmentConfig", "initializeFirebase"} =>
          /\ (MissingApiKey \/ MissingProjectId) => out.threw
          /\ (MissingApiKey /\ MissingProjectId) =>
                out.val = "Environment configuration errors:\n"
                          \o "  - VITE_FIREBASE_API_KEY is required\n"
                          \o "  - VITE_FIREBASE_PROJECT_ID is required"
          /\ (MissingApiKey /\ ~MissingProjectId) =>
                out.val = "Environment configuration errors:\n"
                          \o "  - VITE_FIREBASE_API_KEY is required"
          /\ (~MissingApiKey /\ MissingProjectId) =>
                out.val = "Environment configuration errors:\n"
                          \o "  - VITE_FIREBASE_PROJECT_ID is required"
    /\ (out.fn = "validateEnvironmentConfig" /\ ~MissingApiKey /\ ~MissingProjectId)
          => ~out.threw
    /\ (MissingApiKey \/ MissingProjectId) =>
          ~isInitialized /\ ~firebaseApp /\ ~firebaseFirestore

\* initializeFirebase halted by an error that lists both missing settings
C15_Witness ==
    /\ out.fn = "initializeFirebase"
    /\ out.threw
    /\ MissingApiKey /\ MissingProjectId
    /\ out.val = ValidationMessage(<<ErrApiKey, ErrProjectId>>)
    /\ ~isInitialized

\* C16: getDocumentPath applied to an empty document id throws instead of
\* returning a path.
C16_EmptyIdFails ==
    (out.fn = "getDocumentPath" /\ out.arg[2] = "") => out.threw

\* the string s starts with the string pre
HasPrefix(s, pre) == Len(pre) <= Len(s) /\ SubSeq(s, 1, Len(pre)) = pre

\* the path of collection c in the tree of mode m
TreePath(m, c) == GetCollectionPath(ConfigFor(m), c)

C18_Mode == IF env.appEnv \in {"production", "preview"} THEN env.appEnv ELSE "local"

\* C18: for every value of the environment setting exactly one of
\* isLocalEnvironment, isPreviewEnvironment and isProductionEnvironment is
\* true, the one that matches getAppEnvironment; 'production' and 'preview'
\* stand for themselves, every other value (unset too) for local.
C18_EnvironmentDetection ==
    /\ Cardinality({m \in Modes :
                       \/ m = "local" /\ IsLocalEnvironment(env)
                       \/ m = "preview" /\ IsPreviewEnvironment(env)
                       \/ m = "production" /\ IsProductionEnvironment(env)}) = 1
    /\ out.fn = "getAppEnvironment" => out.val = C18_Mode
    /\ out.fn = "isLocalEnvironment" => out.val = (C18_Mode = "local")
    /\ out.fn = "isPreviewEnvironment" => out.val = (C18_Mode = "preview")
    /\ out.fn = "isProductionEnvironment" => out.val = (C18_Mode = "production")

\* a value that names no mode, found to be local
C18_Witness ==
    /\ env.appEnv = "staging"
    /\ out.fn = "isLocalEnvironment"
    /\ out.val = TRUE

\* C19: a removeFamilyMember by a logged-in caller who is not the creator of
\* the (existing) family fails with an error, the only-the-admin one once the
\* family has been read, and changes no document; a removeFamilyMember or
\* leaveFamily without a logged-in user fails with the login error, with no
\* read of the store (never a read failure) and no write.  No such call
\* gets to its write.
C19_NotCreator ==
    LET c == StartedCall IN
    ( /\ Started
      /\ c.op = "removeFamilyMember"
      /\ c.auth # NoUser
      /\ families[c.fam].exists
      /\ c.auth # families[c.fam].createdBy )
    => /\ c.pc = "failed"
       /\ c.err \in {ErrOnlyAdmin, ErrFetchFamily}
       /\ StoreUnchanged

C19_NotLoggedIn ==
    LET c == StartedCall IN
    (Started /\ c.op \in {"removeFamilyMember", "leaveFamily"} /\ c.auth = NoUser)
    => /\ c.pc = "failed"
       /\ c.err = ErrLogin
       /\ StoreUnchanged

C19_NoWrite ==
    \A p \in Procs :
        (call[p].op \in {"removeFamilyMember", "leaveFamily"}
            /\ call[p].pc = "writeMembers")
        => /\ call[p].auth # NoUser
           /\ call[p].op = "removeFamilyMember"
                 => call[p].auth = families[call[p].fam].createdBy

C19_AuthorizationFailures == [][C19_NotCreator /\ C19_NotLoggedIn /\ C19_NoWrite']_vars

\* a user who is not the creator refused the removal of a member, who stays
C19_Witness ==
    /\ Threw("removeFamilyMember", ErrOnlyAdmin)
    /\ ret.auth = "u3"
    /\ ret.member = "u2"
    /\ families[ret.fam].members = <<"u1", "u2">>

\* an acceptFamilyInvite on invite i is past its write of the members: it has
\* added the caller to the family
C20_Added(i) ==
    \E p \in Procs :
        /\ call[p].op = "acceptFamilyInvite"
        /\ call[p].inv = i
        /\ call[p].pc \in {"readUser", "writeUser", "setStatus"}

\* C20: once an acceptFamilyInvite has added the caller to the members of the
\* family (and, later, the family to the caller's families), the status of the
\* invite becomes 'accepted' at some time, also when a later write of the call
\* fails.  (Behaviours that have used up the calls of the model are let off,
\* so that a behaviour that breaks this is one in which further calls could
\* still be made.)
C20_StatusFollows ==
    \A i \in InviteIds :
        C20_Added(i) ~> (invites[i].status = "accepted" \/ calls = MaxCalls)

\* an acceptFamilyInvite in flight in slot p, at this place
C21_At(p, pcs) == call[p].op = "acceptFamilyInvite" /\ call[p].pc \in pcs

\* C21: the writes of one acceptFamilyInvite come in the order members, then
\* the user's families, then the status, each only after the one before has
\* succeeded: the step after the members write is taken only when that write
\* has put the caller among the members; the status write is reached only
\* through addFamilyToUser having found or put the family in the caller's
\* families; a failed write ends the call; and the status of an invite turns
\* 'accepted' only by the status write of a call that has got that far.
C21_MemberAdd(p) ==
    (Stepped(p) /\ C21_At(p, {"addMember"}))
    => /\ UNCHANGED <<users, invites>>
       /\ \/ /\ StepResult(p).pc = "readUser"
             /\ Includes(families'[call[p].fam].members, call[p].auth)
          \/ /\ StepResult(p).pc = "failed"
             /\ UNCHANGED families

C21_FamilyAdd(p) ==
    (Stepped(p) /\ C21_At(p, {"readUser", "writeUser"}))
    => /\ UNCHANGED <<families, invites>>
       /\ StepResult(p).pc \in {"writeUser", "setStatus", "failed"}
       /\ StepResult(p).pc = "setStatus"
             => Includes(users'[call[p].auth].families, call[p].fam)
       /\ StepResult(p).pc = "failed" => UNCHANGED users
       /\ C21_At(p, {"readUser"}) => UNCHANGED users

C21_Reached(p) ==
    /\ (C21_At(p, {"readUser"})' /\ ~C21_At(p, {"readUser"}))
          => C21_At(p, {"addMember"})
    /\ (C21_At(p, {"setStatus"})' /\ ~C21_At(p, {"setStatus"}))
          => C21_At(p, {"readUser", "writeUser"})

C21_StatusFlip(i) ==
    (invites'[i].status = "accepted" /\ invites[i].status # "accepted")
    => \E p \in Procs :
          /\ C21_At(p, {"setStatus"})
          /\ call[p].inv = i
          /\ StepResult(p).pc = "done"
          /\ Includes(users[call[p].auth].families, call[p].fam)
          /\ UNCHANGED <<families, users>>

C21_WriteOrder ==
    [][ /\ \A p \in Procs : C21_MemberAdd(p) /\ C21_FamilyAdd(p) /\ C21_Reached(p)
        /\ \A i \in InviteIds : C21_StatusFlip(i) ]_vars

\* an accept that has made its three writes
C21_Witness ==
    /\ Returned("acceptFamilyInvite")
    /\ invites[ret.inv].status = "accepted"
    /\ families[ret.fam].members = <<families[ret.fam].createdBy, ret.auth>>
    /\ users[ret.auth].families = <<ret.fam>>
    /\ now = 3

\* a removeFamilyMember or leaveFamily in slot p makes its write, with success
C23_Writes(p) ==
    /\ Stepped(p)
    /\ call[p].op \in {"removeFamilyMember", "leaveFamily"}
    /\ call[p].pc = "writeMembers"
    /\ StepResult(p).pc = "done"

\* C23: a user to whom acceptFamilyInvite has returned successfully, and who
\* is a member, is still a member after the write of a removeFamilyMember or
\* leaveFamily that targets another user.
C23_AcceptedMemberStays ==
    [][\A p \in Procs, i \in InviteIds :
          C23_Writes(p) =>
          \A v \in acceptedBy[i] \ {call[p].member} :
              Includes(families[call[p].fam].members, v)
              => Includes(families'[call[p].fam].members, v)]_vars

\* C24: acceptFamilyInvite adds no member and marks no invite accepted at a
\* clock time later than the invite's expiresAt.
C24_NoWriteAfterExpiry ==
    [][\A p \in Procs :
          ( /\ Stepped(p)
            /\ C21_At(p, {"addMember", "setStatus"})
            /\ StepResult(p).pc \in {"readUser", "done"} )
          => now <= invites[call[p].inv].expiresAt]_vars

\* C26: the write of removeFamilyMember and of leaveFamily changes the members
\* of the one family and nothing else: no user document (the removed user's
\* families keep the family), no invite, no other field of the family; the
\* members written are the members read without the target.
C26_OnlyMembers ==
    [][\A p \in Procs :
          (Stepped(p) /\ call[p].op \in {"removeFamilyMember", "leaveFamily"})
          => /\ UNCHANGED <<users, invites>>
             /\ \A f \in FamilyIds :
                   /\ families'[f].exists = families[f].exists
                   /\ families'[f].createdBy = families[f].createdBy
                   /\ f # call[p].fam => families'[f] = families[f]
             /\ StepResult(p).pc = "done"
                   => /\ families'[call[p].fam].members = call[p].list
                      /\ ~Includes(call[p].list, call[p].member)
             /\ StepResult(p).pc # "done" => UNCHANGED families]_vars

\* a member who has left: the family no longer lists the user, the user's
\* families still list the family, the invite stays accepted
C26_Witness ==
    /\ Returned("leaveFamily")
    /\ ret.auth = "u2"
    /\ ~Includes(families[ret.fam].members, "u2")
    /\ Includes(users["u2"].families, ret.fam)
    /\ invites[1].status = "accepted"

\* C22: two different users who are not members, accepting two different
\* pending invites to the same family with their calls interleaved in any
\* order, both succeed: a step of one user's accept leaves the other invites
\* and the other users' membership as they were, an accept that reads a
\* pending invite and a member set without its caller passes its checks and
\* fails, if at all, with a failure of the store, and once both calls have
\* returned both users are in the family's member set and both invites are
\* accepted.
C22_Independent(p) ==
    /\ \A i \in JoinInviteIds \ {call[p].inv} : invites'[i] = invites[i]
    /\ \A f \in JoinFamilyIds, u \in UserIds \ {call[p].auth} :
          Includes(families'[f].members, u) <=> Includes(families[f].members, u)

C22_ChecksPass(p) ==
    IF call[p].pc = "readFamily"
    THEN ~Includes(families[call[p].fam].members, call[p].auth)
             => StepResult(p).err \in StoreErrors \cup {ErrNone}
    ELSE StepResult(p).err \in StoreErrors \cup {ErrNone}

C22_BothJoined ==
    \A i, j \in JoinInviteIds, u, v \in UserIds :
        ( /\ i # j /\ u # v
          /\ u \in acceptedBy[i] /\ v \in acceptedBy[j]
          /\ invites[i].familyId = invites[j].familyId )
        => /\ Includes(families[invites[i].familyId].members, u)
           /\ Includes(families[invites[i].familyId].members, v)
           /\ invites[i].status = "accepted"
           /\ invites[j].status = "accepted"

C22_IndependentAccepts ==
    /\ []C22_BothJoined
    /\ [][ /\ ( /\ Started
                /\ StartedCall.op = "acceptFamilyInvite"
                /\ StartedCall.auth # NoUser
                /\ invites[StartedCall.inv].status = "pending" )
              => StartedCall.err \in {ErrNone, ErrFetchInvite}
           /\ \A p \in Procs :
                 (Stepped(p) /\ IsAccept(p))
                 => (C22_Independent(p) /\ C22_ChecksPass(p)) ]_vars

\* u2's accept of invite 1 and u3's accept of invite 2 have both returned, u3's
\* member write having come before u2's
C22_Witness ==
    /\ acceptedBy[1] = {"u2"}
    /\ acceptedBy[2] = {"u3"}
    /\ families[1].members = <<"u1", "u3", "u2">>
    /\ ret.op = "acceptFamilyInvite" /\ ret.pc = "done" /\ ret.auth = "u3"

\* C25: when a createFamily and an acceptFamilyInvite of the same user, whose
\* addFamilyToUser calls add two different families to that user's profile,
\* have both returned, both families are in the user's families, however the
\* two calls interleaved.
C25_BothFamiliesKept ==
    \A i \in JoinInviteIds :
        ( /\ Returned("createFamily")
          /\ ret.auth \in acceptedBy[i]
          /\ invites[i].familyId # ret.fam )
        => /\ Includes(users[ret.auth].families, ret.fam)
           /\ Includes(users[ret.auth].families, invites[i].familyId)

\* C30: isFirebaseInitialized() is true only if the app, auth, store and
\* storage handles are all set; as long as no initializeFirebase has succeeded
\* every getter throws, also after an initializeFirebase that failed, and
\* isFirebaseInitialized() is then false; an initializeFirebase after a
\* success changes no handle.
C30_AllHandles ==
    firebaseApp /\ firebaseAuth /\ firebaseFirestore /\ firebaseStorage

C30_SecondInit ==
    (isInitialized /\ out'.fn = "initializeFirebase")
        => UNCHANGED <<isInitialized, firebaseApp, firebaseAuth,
                       firebaseFirestore, firebaseStorage>>

C30_InitializationState ==
    /\ [](isInitialized => C30_AllHandles)
    /\ []((out.fn = "isFirebaseInitialized" /\ out.val) => C30_AllHandles)
    /\ []((out.fn = "initializeFirebase" /\ out.threw) => ~isInitialized)
    /\ [][C30_SecondInit]_vars
    /\ []((~isInitialized /\ out.fn \in Getters) => out.threw)

\* C27: after signUp has returned, the app shell eventually holds the new user
\* as currentUser, as long as that user stays signed in; this in the
\* behaviours where the store rejects no profile lookup of the listener and
\* the listener looks up no other user: the listener's lookup, started when
\* Firebase Auth reports the new account, does not leave the shell with
\* currentUser = null.
C27_LookupRejected == out.fn = "getUserById" /\ out.threw

C27_OnlyLookupsOf(u) == \A v \in UserIds \ {u} : lookups[v] = 0

C27_SignedUpUserShown ==
    \A u \in UserIds :
        [](~C27_LookupRejected /\ C27_OnlyLookupsOf(u)) =>
            ((unsubscribeAuth /\ signUpCall = [pc |-> "done", uid |-> u]
                 /\ authCurrentUser = u)
             ~> (currentUser.id = u \/ authCurrentUser # u))

\* C28: when loading has finished and currentUser is null, the page rendered
\* is the login or the signup page, whatever the route is; the authenticated
\* layout is rendered only while currentUser is not null.
C28_AuthGate ==
    /\ (~isLoading /\ currentUser = NullUser)
          => Render.page \in {"login-page", "signup-page"}
    /\ Render.view = "app" => (~isLoading /\ currentUser # NullUser)

\* signed out, the hash was changed to the family route: the login page shows
C28_Witness ==
    /\ ~isLoading
    /\ currentUser = NullUser
    /\ out = Handled("handleRoute", "family")
    /\ currentRoute = "family"
    /\ Render.page = "login-page"

\* C29: after an auth-state callback that delivers a user to a shell that
\* held none (the listener had reported a sign-out), the family selected, if
\* there is one, is one of that user's families: a family selected under a
\* previous user does not survive the sign-out and the next sign-in.
C29_SelectedFamilyOfUser ==
    [][ ( /\ currentUser = NullUser
          /\ lookups' # lookups
          /\ out'.fn = "getUserById"
          /\ currentUser' # NullUser
          /\ selectedFamilyId' # NoId )
        => Includes(currentUser'.families, selectedFamilyId') ]_vars

====
